---------------------------- MODULE Spec2Model ----------------------------
(***************************************************************************)
(* Model of folder-organizer/folder_organizer.py: FolderOrganizer (the     *)
(* enumeration, the five classification strategies, _move_file, the undo   *)
(* script) and main().                                                     *)
(*                                                                         *)
(* A file name is a record [stem, ext]: stem is the sequence of the        *)
(* "_"-separated tokens of pathlib's Path.stem, ext is Path.suffix.  A     *)
(* path is a sequence of names.  The filesystem maps each existing path    *)
(* to DIR or to the identity of the regular file stored there.             *)
(***************************************************************************)
EXTENDS Integers, Sequences, FiniteSets, TLC

\* ------------------------------------------------------------------ bounds
\* At most this many files exist when the run starts.
MaxFiles == 3
\* At most this many injected I/O failures (stat, move or copy) in a run.
MaxFaults == 1

\* ------------------------------------------------------------------- names
Name(stem, ext) == [stem |-> stem, ext |-> ext]

SRC == Name(<<"src">>, "")
TGT == Name(<<"tgt">>, "")

\* str.lower() on the tokens and extensions that occur.
Lower(s) ==
    CASE s = "WORK"  -> "work"
      [] s = "PHOTO" -> "photo"
      [] s = ".DOCX" -> ".docx"
      [] s = "Images" -> "images"
      [] s = "Others" -> "others"
      [] OTHER -> s

\* name.startswith('.')
StartsWithDot(name) == name.stem[1] \in {".env"}

\* f"{stem}_{counter}{suffix}"
SuffixedName(name, counter) == Name(Append(name.stem, ToString(counter)), name.ext)

Parent(p) == SubSeq(p, 1, Len(p) - 1)
Last(p) == p[Len(p)]
IsPrefix(p, q) == Len(p) <= Len(q) /\ SubSeq(q, 1, Len(p)) = p

\* -------------------------------------------------------------- filesystem
\* The identity of a regular file: where it was when the run started, and
\* whether it is a copy made by shutil.copy2.
Ident(origin, copy) == [origin |-> origin, copy |-> copy]

DIR == Ident(<<>>, FALSE)

Exists(fsys, p) == p \in DOMAIN fsys
IsDir(fsys, p) == Exists(fsys, p) /\ fsys[p] = DIR
IsFile(fsys, p) == Exists(fsys, p) /\ fsys[p] # DIR

Prefixes(p) == {SubSeq(p, 1, n) : n \in 1..Len(p)}

\* Path.mkdir(parents=True, exist_ok=True): FileExistsError when the path or
\* one of its parents is a regular file.
MkdirFails(fsys, d) == \E q \in Prefixes(d) : IsFile(fsys, q)

Mkdir(fsys, d) ==
    [q \in DOMAIN fsys \cup Prefixes(d) |-> IF q \in DOMAIN fsys THEN fsys[q] ELSE DIR]

\* os.rename(src, dst)
Rename(fsys, src, dst) ==
    [q \in (DOMAIN fsys \ {src}) \cup {dst} |-> IF q = dst THEN fsys[src] ELSE fsys[q]]

\* shutil.copy2(src, dst): dst is a new file with the data of src.
Copy2(fsys, src, dst) ==
    [q \in DOMAIN fsys \cup {dst} |->
        IF q = dst THEN Ident(fsys[src].origin, TRUE) ELSE fsys[q]]

\* ------------------------------------------------- the files of the model
PhotoJpg == Name(<<"photo">>, ".jpg")
WorkReportUpper == Name(<<"WORK", "report">>, ".DOCX")
DotEnv == Name(<<".env">>, "")
OthersFile == Name(<<"Others">>, "")
SubDir == Name(<<"sub">>, "")
ImagesDir == Name(<<"Images">>, "")

\* The regular files that may exist when the run starts: four in the source
\* root, one in a subdirectory of it, one already in the target's Images.
Candidates(td) ==
    { <<SRC, PhotoJpg>>, <<SRC, SubDir, PhotoJpg>>, <<SRC, WorkReportUpper>>,
      <<SRC, DotEnv>>, <<SRC, OthersFile>>, td \o <<ImagesDir, PhotoJpg>> }

MiB == 1048576

\* os.stat() of the file that started at origin: st_size in bytes, st_mtime
\* and st_ctime as the [year, month] datetime.fromtimestamp() gives.
Stat(origin) ==
    CASE origin = <<SRC, PhotoJpg>> ->
            [st_size |-> 500000, st_mtime |-> <<2024, 1>>, st_ctime |-> <<2024, 1>>]
      [] origin = <<SRC, SubDir, PhotoJpg>> ->
            [st_size |-> 5000000, st_mtime |-> <<2024, 2>>, st_ctime |-> <<2024, 1>>]
      [] origin = <<SRC, WorkReportUpper>> ->
            [st_size |-> MiB, st_mtime |-> <<2024, 1>>, st_ctime |-> <<2023, 12>>]
      [] origin = <<SRC, DotEnv>> ->
            [st_size |-> 0, st_mtime |-> <<2023, 12>>, st_ctime |-> <<2023, 12>>]
      [] origin = <<SRC, OthersFile>> ->
            [st_size |-> 100 * MiB, st_mtime |-> <<2023, 12>>, st_ctime |-> <<2023, 12>>]
      [] OTHER ->
            [st_size |-> 200000000, st_mtime |-> <<2024, 2>>, st_ctime |-> <<2024, 2>>]

\* The order of the path components as strings: ".env" < "Images" < "Others"
\* < "WORK_report.DOCX" < "photo.jpg" < "src" < "sub" < "tgt".
NameRank(n) ==
    CASE n = DotEnv -> 1
      [] n = ImagesDir -> 2
      [] n = OthersFile -> 3
      [] n = WorkReportUpper -> 4
      [] n = PhotoJpg -> 5
      [] n = SRC -> 6
      [] n = SubDir -> 7
      [] n = TGT -> 8

\* Path.__lt__: the parts compared one by one.
PathLess(p, q) ==
    \E i \in 1..Len(q) :
        /\ i <= Len(p) + 1
        /\ \A j \in 1..(i - 1) : p[j] = q[j]
        /\ i <= Len(p) => NameRank(p[i]) < NameRank(q[i])

\* sorted(files)
RECURSIVE SortedSeq(_)
SortedSeq(S) ==
    IF S = {} THEN <<>>
    ELSE LET m == CHOOSE x \in S : \A y \in S \ {x} : PathLess(x, y)
         IN  <<m>> \o SortedSeq(S \ {m})

\* ------------------------------------------------------------ enumeration
\* Path.glob("*") or Path.glob("**/*"): nothing when the path is no directory.
Glob(fsys, root, recursive) ==
    IF ~IsDir(fsys, root) THEN {}
    ELSE {p \in DOMAIN fsys :
            /\ IsPrefix(root, p)
            /\ IF recursive THEN Len(p) > Len(root) ELSE Len(p) = Len(root) + 1}

\* The mutant of KeepsFile without the check for hidden files.
KeepsFileNoHiddenCheck(fsys, p, include_hidden) == IsFile(fsys, p)

\* if item.is_file(): skip hidden files unless requested
KeepsFile(fsys, p, include_hidden) ==
    IsFile(fsys, p) /\ ~(~include_hidden /\ StartsWithDot(Last(p)))

GetFiles(fsys, root, recursive, include_hidden) ==
    SortedSeq({p \in Glob(fsys, root, recursive) : KeepsFile(fsys, p, include_hidden)})

\* ---------------------------------------------------------- classification
\* FolderOrganizer.DEFAULT_CATEGORIES, in its declared order.
DEFAULT_CATEGORIES ==
    << [category |-> "Images",
        extensions |-> {".jpg", ".jpeg", ".png", ".gif", ".bmp", ".tiff", ".webp",
                        ".svg", ".ico", ".heic"}],
       [category |-> "Documents",
        extensions |-> {".pdf", ".doc", ".docx", ".txt", ".rtf", ".odt", ".pages"}],
       [category |-> "Spreadsheets",
        extensions |-> {".xls", ".xlsx", ".csv", ".ods", ".numbers"}],
       [category |-> "Presentations", extensions |-> {".ppt", ".pptx", ".odp", ".key"}],
       [category |-> "Videos",
        extensions |-> {".mp4", ".avi", ".mkv", ".mov", ".wmv", ".flv", ".webm", ".m4v"}],
       [category |-> "Audio",
        extensions |-> {".mp3", ".wav", ".flac", ".aac", ".ogg", ".wma", ".m4a"}],
       [category |-> "Archives",
        extensions |-> {".zip", ".rar", ".7z", ".tar", ".gz", ".bz2", ".xz"}],
       [category |-> "Code",
        extensions |-> {".py", ".js", ".html", ".css", ".cpp", ".java", ".php", ".rb",
                        ".go", ".rs"}],
       [category |-> "Executables",
        extensions |-> {".exe", ".msi", ".deb", ".rpm", ".dmg", ".pkg", ".app"}],
       [category |-> "Fonts", extensions |-> {".ttf", ".otf", ".woff", ".woff2", ".eot"}] >>

\* The loop of organize_by_type over categories.items(), from entry i on.
RECURSIVE TypeFrom(_, _, _)
TypeFrom(categories, i, file_ext) ==
    IF i > Len(categories) THEN "Others"
    ELSE IF file_ext \in categories[i].extensions THEN categories[i].category
    ELSE TypeFrom(categories, i + 1, file_ext)

TypeFolder(name, categories) == TypeFrom(categories, 1, Lower(name.ext))

\* datetime.strftime("%Y-%m")
Strftime(ym) ==
    ToString(ym[1]) \o "-" \o (IF ym[2] < 10 THEN "0" ELSE "") \o ToString(ym[2])

DateFolder(st, use_creation_date) ==
    Strftime(IF use_creation_date THEN st.st_ctime ELSE st.st_mtime)

\* float('inf')
INF == -1

\* The default size_ranges of organize_by_size, in their declared order.
DefaultSizeRanges ==
    << [range_name |-> "Small (< 1MB)", min_size |-> 0, max_size |-> MiB],
       [range_name |-> "Medium (1-10MB)", min_size |-> MiB, max_size |-> 10 * MiB],
       [range_name |-> "Large (10-100MB)", min_size |-> 10 * MiB, max_size |-> 100 * MiB],
       [range_name |-> "Very Large (> 100MB)", min_size |-> 100 * MiB, max_size |-> INF] >>

\* The mutant of InRange with the upper bound included.
InRangeClosed(r, file_size) ==
    r.min_size <= file_size /\ (r.max_size = INF \/ file_size <= r.max_size)

\* min_size <= file_size < max_size
InRange(r, file_size) ==
    r.min_size <= file_size /\ (r.max_size = INF \/ file_size < r.max_size)

\* The loop of organize_by_size over size_ranges.items(), from entry i on.
RECURSIVE SizeFrom(_, _, _)
SizeFrom(size_ranges, i, file_size) ==
    IF i > Len(size_ranges) THEN "Unknown Size"
    ELSE IF InRange(size_ranges[i], file_size) THEN size_ranges[i].range_name
    ELSE SizeFrom(size_ranges, i + 1, file_size)

SizeFolder(file_size, size_ranges) == SizeFrom(size_ranges, 1, file_size)

\* pattern in filename, for a filename already lowercased and a pattern that
\* is one of its "_"-separated tokens or its extension.
Contains(name, pattern) ==
    \/ \E i \in 1..Len(name.stem) : Lower(name.stem[i]) = pattern
    \/ (name.ext # "" /\ Lower(name.ext) = pattern)

\* The loop of organize_by_name_pattern over patterns.items(), from entry i on.
RECURSIVE PatternFrom(_, _, _)
PatternFrom(patterns, i, name) ==
    IF i > Len(patterns) THEN "Others"
    ELSE IF Contains(name, Lower(patterns[i].pattern)) THEN patterns[i].folder_name
    ELSE PatternFrom(patterns, i + 1, name)

NameFolder(name, patterns) == PatternFrom(patterns, 1, name)

\* ----------------------------------------------------------- custom rules
\* dict.get(key, default)
Get(d, key, default) == IF key \in DOMAIN d THEN d[key] ELSE default

\* The rules files of the model, as json.load() returns them.  "malformed"
\* parses, but the size_range of its second rule has one element.
RulesDoc(id) ==
    CASE id = "spec_example" ->
            [rules |-> << [conditions |-> [extensions |-> {".docx"}, name_contains |-> "work"],
                           folder |-> "Work"] >>,
             default_folder |-> "Others"]
      [] id = "first_wins" ->
            [rules |-> << [conditions |-> [size_range |-> <<0, MiB>>], folder |-> "UpTo1MiB"],
                          [conditions |-> [name_contains |-> "PHOTO", size_range |-> <<0, 10 * MiB>>],
                           folder |-> "Photos"],
                          [folder |-> "Rest"] >>]
      [] id = "misc_default" ->
            [rules |-> << [conditions |-> [extensions |-> {".jpg"}, size_range |-> <<MiB, 10 * MiB>>]] >>,
             default_folder |-> "Misc"]
      [] id = "no_default" ->
            [rules |-> << [conditions |-> [extensions |-> {".docx"}, size_range |-> <<0, MiB - 1>>],
                           folder |-> "SmallDocs"] >>]
      [] id = "malformed" ->
            [rules |-> << [conditions |-> [extensions |-> {".docx"}], folder |-> "Docs"],
                          [conditions |-> [size_range |-> <<100>>], folder |-> "Big"] >>,
             default_folder |-> "Others"]

WellFormedDocs == {"spec_example", "first_wins", "misc_default", "no_default"}

\* The rules files main() is run with: two that are well formed, one whose
\* rules are malformed, one that is no JSON, and none at the path given.
RulesFiles == {"spec_example", "misc_default", "malformed", "unparseable", "missing"}

\* The mutant of RuleOutcome that leaves max_size out of the size range.
RuleOutcomeExclusiveMax(rule, name, file_size) ==
    LET conditions == Get(rule, "conditions", <<>>)
        m1 == ~("extensions" \in DOMAIN conditions
                /\ Lower(name.ext) \notin conditions.extensions)
        m2 == m1 /\ ~("name_contains" \in DOMAIN conditions
                      /\ ~Contains(name, Lower(conditions.name_contains)))
    IN  IF "size_range" \in DOMAIN conditions /\ m2
        THEN IF Len(conditions.size_range) # 2 THEN "raise"
             ELSE IF conditions.size_range[1] <= file_size
                     /\ file_size < conditions.size_range[2]
                  THEN "match" ELSE "nomatch"
        ELSE IF m2 THEN "match" ELSE "nomatch"

\* One rule of _apply_custom_rules against one file: "match", "nomatch", or
\* "raise" when unpacking size_range raises ValueError.
RuleOutcome(rule, name, file_size) ==
    LET conditions == Get(rule, "conditions", <<>>)
        m1 == ~("extensions" \in DOMAIN conditions
                /\ Lower(name.ext) \notin conditions.extensions)
        m2 == m1 /\ ~("name_contains" \in DOMAIN conditions
                      /\ ~Contains(name, Lower(conditions.name_contains)))
    IN  IF "size_range" \in DOMAIN conditions /\ m2
        THEN IF Len(conditions.size_range) # 2 THEN "raise"
             ELSE IF conditions.size_range[1] <= file_size
                     /\ file_size <= conditions.size_range[2]
                  THEN "match" ELSE "nomatch"
        ELSE IF m2 THEN "match" ELSE "nomatch"

\* The loop of _apply_custom_rules over rules.get('rules', []), from rule i on.
RECURSIVE RulesFrom(_, _, _, _)
RulesFrom(rules, i, name, file_size) ==
    LET rs == Get(rules, "rules", <<>>)
    IN  IF i > Len(rs) THEN [raised |-> FALSE, folder |-> Get(rules, "default_folder", "Others")]
        ELSE LET o == RuleOutcome(rs[i], name, file_size)
             IN  IF o = "raise" THEN [raised |-> TRUE, folder |-> ""]
                 ELSE IF o = "match"
                      THEN [raised |-> FALSE, folder |-> Get(rs[i], "folder", "Others")]
                      ELSE RulesFrom(rules, i + 1, name, file_size)

ApplyCustomRules(name, file_size, rules) == RulesFrom(rules, 1, name, file_size)

\* The --by-name patterns of the model, in their declared order.
SamplePatterns ==
    << [folder_name |-> "Work", pattern |-> "WORK"],
       [folder_name |-> "Reports", pattern |-> "report"],
       [folder_name |-> "Pictures", pattern |-> ".jpg"] >>

\* ------------------------------------------------------------------- state
VARIABLES
    args,          \* the parsed command line
    fs,            \* the filesystem
    fs0,           \* the filesystem when main() started
    pc,            \* where main() is
    err,           \* what raised the exception main() caught, or "none"
    files,         \* the list get_files returned
    idx,           \* the loop index of organize_* into files
    stats,         \* the stats dict of organize_*
    moved_files,   \* FolderOrganizer.moved_files
    failed_files,  \* FolderOrganizer.failed_files
    faults,        \* the I/O failures injected so far
    targets,       \* per file reached, the folder names handed to _move_file
    moved_from,    \* per entry of moved_files, the source path it came from
    script,        \* the moved_files list embedded in the undo script
    uidx,          \* the loop index of undo_organization
    restored,      \* per entry the undo loop has passed, where it put the file
    call           \* a classifier applied on its own: its inputs and result

vars == <<call, args, fs, fs0, pc, err, files, idx, stats, moved_files, failed_files,
          faults, targets, moved_from, script, uidx, restored>>

Methods == <<"by_type", "by_date", "by_size", "by_name", "custom_rules">>

\* FolderOrganizer.__init__
source_dir == <<SRC>>
target_dir == IF args.target_dir THEN <<TGT>> ELSE source_dir
dry_run == ~args.execute
copy_files == args.copy

\* The if/elif chain of main(): the first selected method, "none" without one.
RECURSIVE DispatchFrom(_, _)
DispatchFrom(selected, i) ==
    IF i > Len(Methods) THEN "none"
    ELSE IF Methods[i] \in selected THEN Methods[i]
    ELSE DispatchFrom(selected, i + 1)

Dispatch(selected) == DispatchFrom(selected, 1)

\* The while loop of _move_file (and of the undo script): the first path
\* among name, stem_1, stem_2, ... of directory d that does not exist.
RECURSIVE ResolveFrom(_, _, _, _, _)
ResolveFrom(fsys, d, original, counter, target_path) ==
    IF Exists(fsys, target_path)
    THEN ResolveFrom(fsys, d, original, counter + 1, d \o <<SuffixedName(original, counter)>>)
    ELSE target_path

\* The mutant of ResolveTarget that skips the collision loop.
ResolveTargetNoLoop(fsys, d, name) == d \o <<name>>

ResolveTarget(fsys, d, name) == ResolveFrom(fsys, d, name, 1, d \o <<name>>)

\* _move_file(source_path, target_folder) when dry_run is off; io_ok is
\* whether shutil.move / shutil.copy2 succeeds.  Gives the return value, the
\* filesystem afterwards and what is appended to moved_files and failed_files.
LiveMoveFile(fsys, source_path, target_folder, io_ok) ==
    LET d == target_dir \o <<Name(<<target_folder>>, "")>>
        failure(f) == [ok |-> FALSE, fs |-> f, moved |-> <<>>, failed |-> <<source_path>>]
    IN  IF MkdirFails(fsys, d) THEN failure(fsys)
        ELSE LET made == Mkdir(fsys, d)
                 target_path == ResolveTarget(made, d, Last(source_path))
             IN  IF ~io_ok THEN failure(made)
                 ELSE [ok |-> TRUE,
                       fs |-> IF copy_files THEN Copy2(made, source_path, target_path)
                              ELSE Rename(made, source_path, target_path),
                       moved |-> <<target_path>>,
                       failed |-> <<>>]

\* The mutant of MoveFile that does not look at dry_run.
MoveFileIgnoringDryRun(fsys, source_path, target_folder, io_ok) ==
    LiveMoveFile(fsys, source_path, target_folder, io_ok)

\* _move_file(source_path, target_folder): in dry-run mode it only logs.
MoveFile(fsys, source_path, target_folder, io_ok) ==
    IF dry_run
    THEN [ok |-> TRUE, fs |-> fsys, moved |-> <<>>, failed |-> <<>>]
    ELSE LiveMoveFile(fsys, source_path, target_folder, io_ok)

\* The mutant of Count that forgets the count so far: stats[target_folder] = 1
CountForgets(st, folder) ==
    [k \in DOMAIN st \cup {folder} |-> IF k = folder THEN 1 ELSE st[k]]

\* stats[target_folder] = stats.get(target_folder, 0) + 1
Count(st, folder) ==
    IF folder \in DOMAIN st THEN [st EXCEPT ![folder] = @ + 1]
    ELSE [k \in DOMAIN st \cup {folder} |-> IF k = folder THEN 1 ELSE st[k]]

\* No classifier is applied on its own during a run of main().
NoCall == [fn |-> "none", name |-> SRC, file_size |-> 0, cfg |-> "", result |-> ""]

\* -------------------------------------------------------------------- Init
\* A filesystem holding the regular files S, their parent directories, and
\* the source root as a directory ("dir"), a regular file ("file") or not at
\* all ("missing").
MkFs(S, kind) ==
    LET dirs == UNION {Prefixes(Parent(p)) : p \in S}
                    \cup (IF kind = "dir" THEN {source_dir} ELSE {})
        regular == S \cup (IF kind = "file" THEN {source_dir} ELSE {})
    IN  [q \in dirs \cup regular |-> IF q \in regular THEN Ident(q, FALSE) ELSE DIR]

\* The method options a command line may carry: argparse declares the five
\* as independent options, so none, one or several may be given.  Of the
\* selections of several, the model runs each pair of neighbours in the
\* if/elif chain and the selection of all five.
Selections ==
    {{}} \cup {{Methods[i]} : i \in 1..Len(Methods)}
         \cup {{Methods[i], Methods[i + 1]} : i \in 1..(Len(Methods) - 1)}
         \cup {{Methods[i] : i \in 1..Len(Methods)}}

\* The command lines of the model.  An option that main() reads only on one
\* branch varies only where that branch is taken; --create-undo, read once
\* when organize_* has returned, is drawn there (Finish).
ArgsSet ==
    { a \in [execute : BOOLEAN, copy : BOOLEAN, recursive : BOOLEAN,
             include_hidden : BOOLEAN, target_dir : BOOLEAN,
             methods : Selections,
             use_creation_date : BOOLEAN, custom_rules : RulesFiles] :
        /\ a.use_creation_date => Dispatch(a.methods) = "by_date"
        /\ a.custom_rules # "spec_example" => Dispatch(a.methods) = "custom_rules"
        /\ a.methods = {} => ~a.recursive /\ ~a.include_hidden }

Init ==
    /\ args \in ArgsSet
    /\ \E kind \in {"dir", "file", "missing"} :
       \E S \in SUBSET Candidates(target_dir) :
          /\ Cardinality(S) <= MaxFiles
          /\ kind # "dir" => \A p \in S : ~IsPrefix(source_dir, p)
          /\ fs = MkFs(S, kind)
    /\ fs0 = fs
    /\ pc = "main"
    /\ err = "none"
    /\ files = <<>>
    /\ idx = 1
    /\ stats = <<>>
    /\ moved_files = <<>>
    /\ failed_files = <<>>
    /\ faults = 0
    /\ targets = <<>>
    /\ moved_from = <<>>
    /\ script = <<>>
    /\ uidx = 1
    /\ restored = <<>>
    /\ call = NoCall

\* ----------------------------------------------------------------- actions
\* main(): FolderOrganizer(...) raises FileNotFoundError when source_dir does
\* not exist; main() logs it and exits with status 1.
Construct ==
    /\ pc = "main"
    /\ IF Exists(fs, source_dir)
       THEN pc' = "constructed" /\ err' = err
       ELSE pc' = "exit1" /\ err' = "source_missing"
    /\ UNCHANGED <<call, args, fs, fs0, files, idx, stats, moved_files, failed_files,
                   faults, targets, moved_from, script, uidx, restored>>

\* main() picks the method; organize_* runs up to its loop: for custom rules
\* the rules file is opened and parsed, then get_files() lists the files.
\* Without a method main() prints a message and returns.
BeginOrganize ==
    /\ pc = "constructed"
    /\ LET method == Dispatch(args.methods)
       IN  IF method = "none"
           THEN pc' = "exit0" /\ err' = err /\ files' = files
           ELSE IF method = "custom_rules" /\ args.custom_rules \in {"missing", "unparseable"}
           THEN pc' = "exit1" /\ err' = "rules_" \o args.custom_rules /\ files' = files
           ELSE /\ pc' = "loop"
                /\ err' = err
                /\ files' = GetFiles(fs, source_dir, args.recursive, args.include_hidden)
    /\ UNCHANGED <<call, args, fs, fs0, idx, stats, moved_files, failed_files,
                   faults, targets, moved_from, script, uidx, restored>>

InLoop(method) ==
    /\ pc = "loop"
    /\ idx <= Len(files)
    /\ Dispatch(args.methods) = method

\* Whether the coming I/O call may be made to fail.
MayFail(ok) == ok \/ faults < MaxFaults

\* The rest of one loop iteration once target_folder is known:
\* if self._move_file(file_path, target_folder): stats[target_folder] += 1
Relocate(target_folder, io_ok) ==
    LET r == MoveFile(fs, files[idx], target_folder, io_ok)
    IN  /\ fs' = r.fs
        /\ moved_files' = moved_files \o r.moved
        /\ failed_files' = failed_files \o r.failed
        /\ moved_from' = IF r.moved = <<>> THEN moved_from ELSE Append(moved_from, files[idx])
        /\ stats' = IF r.ok THEN Count(stats, target_folder) ELSE stats
        /\ targets' = Append(targets, <<target_folder>>)
        /\ idx' = idx + 1

\* The except branch of organize_by_date and organize_by_size.
StatFailed ==
    /\ failed_files' = Append(failed_files, files[idx])
    /\ targets' = Append(targets, <<>>)
    /\ idx' = idx + 1
    /\ UNCHANGED <<fs, moved_files, moved_from, stats>>

\* An exception of _apply_custom_rules leaves organize_by_custom_rules and is
\* caught by main(), which logs it and exits with status 1.
Raised(why) ==
    /\ pc' = "exit1"
    /\ err' = why
    /\ targets' = Append(targets, <<>>)
    /\ UNCHANGED <<fs, moved_files, failed_files, moved_from, stats, idx>>

\* Whether shutil.move / shutil.copy2 is reached with the coming call.
ReachesIO(target_folder) ==
    ~dry_run /\ ~MkdirFails(fs, target_dir \o <<Name(<<target_folder>>, "")>>)

IoChoices(target_folder) == IF ReachesIO(target_folder) THEN BOOLEAN ELSE {TRUE}

\* The mutant of StepByType without target_folder = "Others" before the
\* loop: a file of no category raises NameError, which main() catches.
StepByTypeNoFallback ==
    /\ InLoop("by_type")
    /\ LET target_folder == TypeFolder(Last(files[idx]), DEFAULT_CATEGORIES)
       IN  IF target_folder = "Others"
           THEN faults' = faults /\ Raised("NameError")
           ELSE \E io_ok \in IoChoices(target_folder) :
                   /\ MayFail(io_ok)
                   /\ faults' = IF io_ok THEN faults ELSE faults + 1
                   /\ Relocate(target_folder, io_ok)
                   /\ UNCHANGED <<pc, err>>
    /\ UNCHANGED <<call, args, fs0, files, script, uidx, restored>>

StepByType ==
    /\ InLoop("by_type")
    /\ LET target_folder == TypeFolder(Last(files[idx]), DEFAULT_CATEGORIES)
       IN  \E io_ok \in IoChoices(target_folder) :
              /\ MayFail(io_ok)
              /\ faults' = IF io_ok THEN faults ELSE faults + 1
              /\ Relocate(target_folder, io_ok)
    /\ UNCHANGED <<call, args, fs0, pc, err, files, script, uidx, restored>>

StepByDate ==
    /\ InLoop("by_date")
    /\ \E stat_ok \in BOOLEAN :
          /\ MayFail(stat_ok)
          /\ IF ~stat_ok
             THEN faults' = faults + 1 /\ StatFailed
             ELSE LET target_folder == DateFolder(Stat(fs[files[idx]].origin),
                                                  args.use_creation_date)
                  IN  \E io_ok \in IoChoices(target_folder) :
                         /\ MayFail(io_ok)
                         /\ faults' = IF io_ok THEN faults ELSE faults + 1
                         /\ Relocate(target_folder, io_ok)
    /\ UNCHANGED <<call, args, fs0, pc, err, files, script, uidx, restored>>

StepBySize ==
    /\ InLoop("by_size")
    /\ \E stat_ok \in BOOLEAN :
          /\ MayFail(stat_ok)
          /\ IF ~stat_ok
             THEN faults' = faults + 1 /\ StatFailed
             ELSE LET target_folder == SizeFolder(Stat(fs[files[idx]].origin).st_size,
                                                  DefaultSizeRanges)
                  IN  \E io_ok \in IoChoices(target_folder) :
                         /\ MayFail(io_ok)
                         /\ faults' = IF io_ok THEN faults ELSE faults + 1
                         /\ Relocate(target_folder, io_ok)
    /\ UNCHANGED <<call, args, fs0, pc, err, files, script, uidx, restored>>

StepByNamePattern ==
    /\ InLoop("by_name")
    /\ LET target_folder == NameFolder(Last(files[idx]), SamplePatterns)
       IN  \E io_ok \in IoChoices(target_folder) :
              /\ MayFail(io_ok)
              /\ faults' = IF io_ok THEN faults ELSE faults + 1
              /\ Relocate(target_folder, io_ok)
    /\ UNCHANGED <<call, args, fs0, pc, err, files, script, uidx, restored>>

StepByCustomRules ==
    /\ InLoop("custom_rules")
    /\ \E stat_ok \in BOOLEAN :
          /\ MayFail(stat_ok)
          /\ IF ~stat_ok
             THEN faults' = faults + 1 /\ Raised("stat")
             ELSE LET c == ApplyCustomRules(Last(files[idx]),
                                            Stat(fs[files[idx]].origin).st_size,
                                            RulesDoc(args.custom_rules))
                  IN  IF c.raised
                      THEN faults' = faults /\ Raised("rules_malformed")
                      ELSE \E io_ok \in IoChoices(c.folder) :
                              /\ MayFail(io_ok)
                              /\ faults' = IF io_ok THEN faults ELSE faults + 1
                              /\ Relocate(c.folder, io_ok)
                              /\ UNCHANGED <<pc, err>>
    /\ UNCHANGED <<call, args, fs0, files, script, uidx, restored>>

\* organize_* returns; main() prints the results and, after an executed run
\* with --create-undo, create_undo_script() writes the script, which embeds
\* moved_files (no script when moved_files is empty).
Finish ==
    /\ pc = "loop"
    /\ idx > Len(files)
    /\ pc' = "exit0"
    /\ \E create_undo \in (IF args.execute THEN BOOLEAN ELSE {FALSE}) :
          script' = IF args.execute /\ create_undo THEN moved_files ELSE <<>>
    /\ UNCHANGED <<call, args, fs, fs0, err, files, idx, stats, moved_files, failed_files,
                   faults, targets, moved_from, uidx, restored>>

\* One iteration of the loop of the generated undo_organization(), run after
\* main() has exited.
UndoStep ==
    /\ pc \in {"exit0", "undo"}
    /\ uidx <= Len(script)
    /\ pc' = "undo"
    /\ LET file_path == script[uidx]
       IN  IF Exists(fs, file_path)
           THEN LET target_path == ResolveTarget(fs, source_dir, Last(file_path))
                IN  /\ fs' = Rename(fs, file_path, target_path)
                    /\ restored' = Append(restored, target_path)
           ELSE /\ fs' = fs
                /\ restored' = Append(restored, <<>>)
    /\ uidx' = uidx + 1
    /\ UNCHANGED <<call, args, fs0, err, files, idx, stats, moved_files, failed_files,
                   faults, targets, moved_from, script>>

Next ==
    \/ Construct
    \/ BeginOrganize
    \/ StepByType
    \/ StepByDate
    \/ StepBySize
    \/ StepByNamePattern
    \/ StepByCustomRules
    \/ Finish
    \/ UndoStep

Spec == Init /\ [][Next]_vars

\* ------------------------------------------- the classifiers on their own
\* organize_by_size takes the caller's size_ranges: the default ones, two
\* overlapping ranges, or ranges that leave sizes uncovered.
SizeRangesOf(cfg) ==
    CASE cfg = "default" -> DefaultSizeRanges
      [] cfg = "overlapping" ->
            << [range_name |-> "Under 10MB", min_size |-> 0, max_size |-> 10 * MiB],
               [range_name |-> "Over 1MB", min_size |-> MiB, max_size |-> INF] >>
      [] cfg = "gaps" ->
            << [range_name |-> "Big", min_size |-> 100 * MiB, max_size |-> INF],
               [range_name |-> "Tiny", min_size |-> 0, max_size |-> 1000] >>

SizeSamples ==
    {0, 999, 1000, 500000, MiB - 1, MiB, MiB + 1, 5000000, 10 * MiB - 1, 10 * MiB,
     100 * MiB - 1, 100 * MiB, 200000000}

WorkReportDocx == Name(<<"work", "report">>, ".docx")
ReportDocx == Name(<<"report">>, ".docx")
WorkNotesDocx == Name(<<"WORK", "notes">>, ".DOCX")

NameSamples ==
    {WorkReportDocx, ReportDocx, WorkNotesDocx, WorkReportUpper, PhotoJpg,
     SuffixedName(PhotoJpg, 1), DotEnv}

CallSet ==
    [fn : {"by_size"}, name : {PhotoJpg}, file_size : SizeSamples,
     cfg : {"default", "overlapping", "gaps"}, result : {""}]
    \cup
    [fn : {"custom_rules"}, name : NameSamples, file_size : SizeSamples,
     cfg : WellFormedDocs \cup {"malformed"}, result : {""}]

InitClassify ==
    /\ call \in CallSet
    /\ args = [execute |-> FALSE, copy |-> FALSE, recursive |-> FALSE,
               include_hidden |-> FALSE, target_dir |-> FALSE, methods |-> {},
               use_creation_date |-> FALSE, custom_rules |-> "spec_example"]
    /\ fs = MkFs({}, "dir")
    /\ fs0 = fs
    /\ pc = "classify"
    /\ err = "none"
    /\ files = <<>>
    /\ idx = 1
    /\ stats = <<>>
    /\ moved_files = <<>>
    /\ failed_files = <<>>
    /\ faults = 0
    /\ targets = <<>>
    /\ moved_from = <<>>
    /\ script = <<>>
    /\ uidx = 1
    /\ restored = <<>>

runVars == <<args, fs, fs0, pc, err, files, idx, stats, moved_files, failed_files,
             faults, targets, moved_from, script, uidx, restored>>

\* The classification of organize_by_size for one file size.
ClassifyBySize ==
    /\ call.fn = "by_size"
    /\ call.result = ""
    /\ call' = [call EXCEPT !.result = SizeFolder(call.file_size, SizeRangesOf(call.cfg))]
    /\ UNCHANGED runVars

\* _apply_custom_rules for one file; "<raise>" when it raises.
ClassifyByCustomRules ==
    /\ call.fn = "custom_rules"
    /\ call.result = ""
    /\ LET c == ApplyCustomRules(call.name, call.file_size, RulesDoc(call.cfg))
       IN  call' = [call EXCEPT !.result = IF c.raised THEN "<raise>" ELSE c.folder]
    /\ UNCHANGED runVars

NextClassify == ClassifyBySize \/ ClassifyByCustomRules

SpecClassify == InitClassify /\ [][NextClassify]_vars

\* ------------------------------------------------------------------ claims
\* C1: in dry-run mode no run of any strategy changes the filesystem (no
\* directory created, no file moved, copied or renamed) and moved_files
\* stays empty.
C1_DryRunChangesNothing == dry_run => (fs = fs0 /\ moved_files = <<>>)

\* A dry run that has ended after handing two or more files to _move_file.
C1_Witness ==
    /\ dry_run
    /\ pc = "exit0"
    /\ Len(targets) >= 2
    /\ \A i \in 1..Len(targets) : targets[i] # <<>>

\* The initial target path of _move_file and the n-th renamed one.
CandidatePath(folder, name, n) ==
    target_dir \o <<Name(<<folder>>, ""), IF n = 0 THEN name ELSE SuffixedName(name, n)>>

\* C2: in live mode a relocation never overwrites an existing file: the file
\* goes to the first path among name, stem_1, stem_2, ... of the target folder
\* that does not exist, every other file keeps its path and its data, and
\* each entry of the move log holds the file of the source it was logged for.
C2_NeverOverwrites ==
    /\ [](~dry_run /\ pc \in {"loop", "exit0", "exit1"} =>
            \A i \in 1..Len(moved_files) :
                /\ IsFile(fs, moved_files[i])
                /\ fs[moved_files[i]].origin = moved_from[i]
                /\ \A j \in 1..Len(moved_files) : moved_files[j] = moved_files[i] => j = i)
    /\ [][~dry_run /\ pc = "loop" /\ idx <= Len(files) =>
            /\ \A p \in DOMAIN fs :
                  IsFile(fs, p) /\ (p # files[idx] \/ copy_files \/ moved_files' = moved_files)
                      => IsFile(fs', p) /\ fs'[p] = fs[p]
            /\ moved_files' # moved_files =>
                  LET dst == moved_files'[Len(moved_files')]
                      folder == targets'[Len(targets')][1]
                      name == Last(files[idx])
                  IN  /\ ~Exists(fs, dst)
                      /\ fs'[dst].origin = fs[files[idx]].origin
                      /\ \E n \in 0..Cardinality(DOMAIN fs) :
                            /\ dst = CandidatePath(folder, name, n)
                            /\ \A m \in 0..(n - 1) :
                                  Exists(fs, CandidatePath(folder, name, m))
       ]_vars

\* Two sources that both land at Images/photo.jpg: photo.jpg and photo_1.jpg
\* are both there, each logged for its own source.
C2_Witness ==
    /\ ~dry_run
    /\ \E i, j \in 1..Len(moved_files) :
          /\ moved_files[i] = CandidatePath("Images", PhotoJpg, 0)
          /\ moved_files[j] = CandidatePath("Images", PhotoJpg, 1)
          /\ moved_from[i] # moved_from[j]
          /\ Last(moved_from[i]) = PhotoJpg
          /\ Last(moved_from[j]) = PhotoJpg
          /\ IsFile(fs, moved_files[i])
          /\ IsFile(fs, moved_files[j])

\* No collision suffix was applied during the forward pass.
NoSuffixApplied ==
    \A i \in 1..Len(moved_files) : Last(moved_files[i]) = Last(moved_from[i])

UndoDone == pc = "undo" /\ uidx > Len(script)

\* C3: after a live run in which no collision suffix was applied, the undo
\* script puts every file of the move log back into the source root under
\* its original name.
C3_UndoRestoresOriginalNames ==
    UndoDone /\ NoSuffixApplied =>
        \A i \in 1..Len(script) :
            /\ restored[i] = source_dir \o <<Last(moved_from[i])>>
            /\ IsFile(fs, restored[i])

\* C4: a stat, move or copy failure of one file never leaves organize_*: the
\* file is put on the failure list, every file is still reached, and the call
\* returns.
C4_FailureNeverAborts ==
    /\ err # "stat"
    /\ pc \in {"exit0", "undo"} /\ Dispatch(args.methods) # "none" =>
          Len(targets) = Len(files) /\ Len(failed_files) >= faults

\* C5: when main() ends with status 1 because the source directory is missing
\* or the rules file is missing, unparseable or malformed, nothing was
\* moved, copied, renamed or created.
C5_SetupErrorsTouchNothing ==
    pc = "exit1"
    /\ err \in {"source_missing", "rules_missing", "rules_unparseable", "rules_malformed"}
        => fs = fs0 /\ moved_files = <<>>

\* C6: when the source root is missing or is no directory, the constructor
\* or get_files raises: get_files never returns a list.
C6_NotADirectoryRaises == ~IsDir(fs0, source_dir) => pc # "loop"

\* Whether all present conditions of a rule hold for a file.
RuleHolds(rule, name, file_size) ==
    LET c == IF "conditions" \in DOMAIN rule THEN rule.conditions ELSE <<>>
    IN  /\ "extensions" \in DOMAIN c => Lower(name.ext) \in c.extensions
        /\ "name_contains" \in DOMAIN c => Contains(name, Lower(c.name_contains))
        /\ "size_range" \in DOMAIN c =>
              c.size_range[1] <= file_size /\ file_size <= c.size_range[2]

Least(S) == CHOOSE n \in S : \A m \in S : n <= m

\* The folder the claims give a file under a well-formed rules document.
RuleFolder(doc, name, file_size) ==
    LET hits == {i \in 1..Len(doc.rules) : RuleHolds(doc.rules[i], name, file_size)}
    IN  IF hits = {}
        THEN IF "default_folder" \in DOMAIN doc THEN doc.default_folder ELSE "Others"
        ELSE IF "folder" \in DOMAIN doc.rules[Least(hits)]
             THEN doc.rules[Least(hits)].folder ELSE "Others"

\* The folder the claims give a file size under an ordered list of ranges.
RangeFolder(ranges, file_size) ==
    LET hits == {i \in 1..Len(ranges) :
                    /\ ranges[i].min_size <= file_size
                    /\ (ranges[i].max_size = INF \/ file_size < ranges[i].max_size)}
    IN  IF hits = {} THEN "Unknown Size" ELSE ranges[Least(hits)].range_name

\* Whether folder is a destination the strategy of the run may give file p.
ValidFolder(folder, p) ==
    LET method == Dispatch(args.methods)
        name == Last(p)
        st == Stat(fs0[p].origin)
    IN  CASE method = "by_type" ->
                LET hits == {i \in 1..Len(DEFAULT_CATEGORIES) :
                                Lower(name.ext) \in DEFAULT_CATEGORIES[i].extensions}
                IN  IF hits = {} THEN folder = "Others"
                    ELSE \E i \in hits : folder = DEFAULT_CATEGORIES[i].category
          [] method = "by_date" ->
                folder = Strftime(IF args.use_creation_date THEN st.st_ctime ELSE st.st_mtime)
          [] method = "by_size" -> folder = RangeFolder(DefaultSizeRanges, st.st_size)
          [] method = "by_name" ->
                LET hits == {i \in 1..Len(SamplePatterns) :
                                Contains(name, Lower(SamplePatterns[i].pattern))}
                IN  IF hits = {} THEN folder = "Others"
                    ELSE \E i \in hits : folder = SamplePatterns[i].folder_name
          [] method = "custom_rules" ->
                LET doc == RulesDoc(args.custom_rules)
                IN  \/ \E i \in 1..Len(doc.rules) :
                          folder = Get(doc.rules[i], "folder", "Others")
                    \/ folder = Get(doc, "default_folder", "Others")

Range(q) == {q[i] : i \in 1..Len(q)}

C8_FirstMatchingRuleWins ==
    call.fn = "custom_rules" /\ call.result # "" /\ call.cfg \in WellFormedDocs =>
        /\ call.result = RuleFolder(RulesDoc(call.cfg), call.name, call.file_size)
        /\ call.cfg = "spec_example" /\ call.name = WorkReportDocx => call.result = "Work"
        /\ call.cfg = "spec_example" /\ call.name = ReportDocx => call.result = "Others"
        /\ call.cfg = "first_wins" /\ call.file_size > 10 * MiB => call.result = "Rest"

\* A file of exactly 1 MiB that matches two rules of "first_wins" got the
\* folder of the first, whose inclusive range ends at 1 MiB.
C8_Witness ==
    /\ call.fn = "custom_rules"
    /\ call.cfg = "first_wins"
    /\ call.name = PhotoJpg
    /\ call.file_size = MiB
    /\ RuleHolds(RulesDoc("first_wins").rules[2], call.name, call.file_size)
    /\ call.result = "UpTo1MiB"

\* C9: organize_by_size gives the first range, in declared order, with
\* min <= size < max, and "Unknown Size" when no range holds the size; under
\* the default ranges every size is in exactly one range, 500,000 is Small,
\* 1,048,576 and 5,000,000 are Medium and 200,000,000 is Very Large.
C9_FirstHalfOpenRange ==
    call.fn = "by_size" /\ call.result # "" =>
        /\ call.result = RangeFolder(SizeRangesOf(call.cfg), call.file_size)
        /\ call.cfg = "default" =>
              /\ Cardinality({i \in 1..Len(DefaultSizeRanges) :
                    /\ DefaultSizeRanges[i].min_size <= call.file_size
                    /\ (DefaultSizeRanges[i].max_size = INF
                        \/ call.file_size < DefaultSizeRanges[i].max_size)}) = 1
              /\ call.file_size = 500000 => call.result = "Small (< 1MB)"
              /\ call.file_size = 1048576 => call.result = "Medium (1-10MB)"
              /\ call.file_size = 5000000 => call.result = "Medium (1-10MB)"
              /\ call.file_size = 200000000 => call.result = "Very Large (> 100MB)"

\* The boundary of the default ranges: exactly 1,048,576 bytes is Medium.
C9_Witness ==
    /\ call.fn = "by_size"
    /\ call.cfg = "default"
    /\ call.file_size = 1048576
    /\ call.result = "Medium (1-10MB)"

\* C10: get_files gives only regular files, in sorted path order; a file
\* whose name starts with "." only with include_hidden; without recursive,
\* no file of a subdirectory of the source root.
C10_Enumeration ==
    pc = "loop" =>
        /\ \A i \in 1..Len(files) :
              /\ IsFile(fs0, files[i])
              /\ IsPrefix(source_dir, files[i])
              /\ StartsWithDot(Last(files[i])) => args.include_hidden
              /\ ~args.recursive => Len(files[i]) = Len(source_dir) + 1
        /\ \A i, j \in 1..Len(files) : i < j => PathLess(files[i], files[j])

\* get_files has returned a file and left out a hidden file, a file of a
\* subdirectory and the subdirectory itself.
C10_Witness ==
    /\ pc = "loop"
    /\ idx = 1
    /\ Len(files) >= 1
    /\ ~args.recursive
    /\ ~args.include_hidden
    /\ IsFile(fs0, <<SRC, DotEnv>>)
    /\ IsFile(fs0, <<SRC, ImagesDir, PhotoJpg>>)
    /\ IsDir(fs0, <<SRC, ImagesDir>>)
    /\ \A i \in 1..Len(files) : files[i] \notin {<<SRC, DotEnv>>, <<SRC, ImagesDir, PhotoJpg>>,
                                                 <<SRC, ImagesDir>>}

\* C11: the five method options are mutually exclusive and exactly one is
\* required: a command line with none of them, or with more than one, has no
\* file moved or copied.
C11_ExactlyOneStrategy ==
    Cardinality(args.methods) # 1 => moved_files = <<>>

\* sum(stats.values())
RECURSIVE Total(_)
Total(st) ==
    IF DOMAIN st = {} THEN 0
    ELSE LET k == CHOOSE x \in DOMAIN st : TRUE
         IN  st[k] + Total([j \in DOMAIN st \ {k} |-> st[j]])

\* The enumerated files that are not on the failure list.
NotFailed(p) == p \notin Range(failed_files)

\* The positions of files whose relocation _move_file reported as done.
Placed == {i \in 1..Len(files) : i <= Len(targets) /\ targets[i] # <<>> /\ NotFailed(files[i])}

=============================================================================
